---------------------------- MODULE Spec2Model ----------------------------
(***************************************************************************)
(* The slide packer of the report generator: distribute_paragraphs_to_     *)
(* slides (src/test.py:1-19, copied at src/main.py:719-737 and, as a       *)
(* method, at src/main.py:310-333).  An invocation sorts the item indices  *)
(* by descending weight (stable) and places them first-fit.                *)
(*                                                                         *)
(* Around it, the parts of the generator that make and use the plans: the  *)
(* method variant that returns milestone records, the renderer that fills  *)
(* one "Milestone Report" table per group, and the choice and removal of   *)
(* the slides of teams not selected.                                       *)
(*                                                                         *)
(* Python lists are 0-based: an item index x names paragraph_lengths[x],   *)
(* which is element x+1 of the TLA+ sequence.  Slides are numbered from 1  *)
(* here (slides[1] is Python's slides[0]).                                 *)
(***************************************************************************)
EXTENDS Integers, Sequences, FiniteSets

VARIABLES
    paragraph_lengths,  \* the weight list handed to the invocation
    lines_per_slide,    \* the capacity handed to the invocation
    paragraph_indices,  \* item indices in processing order
    pos,                \* number of items the outer loop has consumed
    slides,             \* the plan under construction
    remaining_lines,    \* per slide, the capacity left
    pc,                 \* where the program stands: "idle" | "loop" | "done"
                        \* for the packer, and the positions named below
    memo,               \* <<>> or one record: a plan the caller kept earlier
    \* the method variant (src/main.py:310-333)
    milestone_info,     \* the milestone records handed to the method
    result,             \* the groups of records the method returned
    \* the renderer of the milestone tables (src/main.py:482-530)
    milestone_data,     \* the fetched plan: its Active and Inactive groups
    milestone_update_counter,  \* the generator's count of tables updated
    milestone_counter,  \* the generator's number for the next milestone
    report_tables,      \* "Milestone Report" tables in the presentation
    rendered,           \* per table updated, what it was given
    \* the removal of slides (src/main.py:646-676)
    xml_slides,         \* the presentation's slide list
    slides_indices,     \* the positions handed to remove_slides
    slides_before,      \* remove_slides' local copy: slides = list(xml_slides)
    calls               \* the calls of slides_to_remove made so far

\* the packer's own state, pc aside
packerVars == <<paragraph_lengths, lines_per_slide, paragraph_indices, pos,
                slides, remaining_lines, memo>>

methodVars == <<milestone_info, result>>
renderVars == <<milestone_data, milestone_update_counter, milestone_counter,
                report_tables, rendered>>
deckVars == <<xml_slides, slides_indices, slides_before>>
teamVars == <<calls>>

\* the state of the report generator around the packer
reportVars == <<methodVars, renderVars, deckVars, teamVars>>

vars == <<paragraph_lengths, lines_per_slide, paragraph_indices, pos,
          slides, remaining_lines, pc, memo, reportVars>>

---------------------------------------------------------------------------
(* Bounds of the input spaces.                                             *)

MaxLen == 3
MaxWeight == 5
MaxCap == 8

DetLen == 2
DetWeight == 1
DetCap == 2

MonoLen == 10
OptLen == 6

\* the default of the parameter lines_per_slide
DefaultLinesPerSlide == 25

\* all sequences over V of length at most n
Lists(n, V) == UNION {[1..k -> V] : k \in 0..n}

SmallLists == Lists(MaxLen, 0..MaxWeight)
SmallCaps == 1..MaxCap

DetLists == Lists(DetLen, 0..DetWeight)
DetCaps == 1..DetCap

\* k copies of v
Copies(k, v) == [j \in 1..k |-> v]

\* count[v] copies of each v of V, the smaller values first
RECURSIVE Blocks(_, _)
Blocks(count, V) ==
    IF V = {} THEN <<>>
    ELSE LET v == CHOOSE u \in V : \A t \in V : u <= t
         IN Copies(count[v], v) \o Blocks(count, V \ {v})

RECURSIVE TotalCount(_, _)
TotalCount(count, V) ==
    IF V = {} THEN 0
    ELSE LET v == CHOOSE u \in V : TRUE
         IN count[v] + TotalCount(count, V \ {v})

\* the non-decreasing lists over V of length at most n
BlockLists(n, V) ==
    {Blocks(count, V) : count \in {c \in [V -> 0..n] : TotalCount(c, V) <= n}}

\* weights and capacities among which a larger capacity costs a slide
MonoWeights == {0, 6, 9, 16}
MonoLists == SmallLists \cup BlockLists(MonoLen, MonoWeights)
MonoCaps == {3, 8, 15, 31, 32}

\* weights among which first-fit misses the fewest slides
OptWeights == {2, 3}
OptLists == SmallLists \cup Lists(OptLen, OptWeights)

---------------------------------------------------------------------------
(* The pure pieces of the packer.                                          *)

\* paragraph_lengths[index]
LengthOf(lengths, index) == lengths[index + 1]

\* Insert index x into a sequence already in processing order: behind every
\* index whose weight is >= its own.
RECURSIVE InsertByLength(_, _, _)
InsertByLength(sorted, x, lengths) ==
    IF sorted = <<>> THEN <<x>>
    ELSE IF LengthOf(lengths, Head(sorted)) >= LengthOf(lengths, x)
         THEN <<Head(sorted)>> \o InsertByLength(Tail(sorted), x, lengths)
         ELSE <<x>> \o sorted

RECURSIVE SortPrefix(_, _)
SortPrefix(lengths, k) ==
    IF k = 0 THEN <<>>
    ELSE InsertByLength(SortPrefix(lengths, k - 1), k - 1, lengths)

\* the order without reverse=True: ascending weight, ties by index
RECURSIVE InsertAscending(_, _, _)
InsertAscending(sorted, x, lengths) ==
    IF sorted = <<>> THEN <<x>>
    ELSE IF LengthOf(lengths, Head(sorted)) <= LengthOf(lengths, x)
         THEN <<Head(sorted)>> \o InsertAscending(Tail(sorted), x, lengths)
         ELSE <<x>> \o sorted

RECURSIVE AscendingPrefix(_, _)
AscendingPrefix(lengths, k) ==
    IF k = 0 THEN <<>>
    ELSE InsertAscending(AscendingPrefix(lengths, k - 1), k - 1, lengths)

SortedIndicesAscending(lengths) == AscendingPrefix(lengths, Len(lengths))

\* the order of sorted(...)[::-1]: descending weight, but equal weights in
\* decreasing index
SortedIndicesReversed(lengths) ==
    LET up == SortedIndicesAscending(lengths)
    IN [k \in DOMAIN up |-> up[Len(up) + 1 - k]]

\* sorted(range(len(paragraph_lengths)), key=..., reverse=True): descending
\* weight, equal weights in their original order (the sort is stable, and
\* reverse=True keeps it so).
SortedIndices(lengths) == SortPrefix(lengths, Len(lengths))

\* a plan that starts with one open, empty slide
InitialSlidesOneOpen == << <<>> >>

\* a plan that starts from what the previous invocation left
InitialSlidesStale == slides

\* slides = []
InitialSlides == <<>>

\* "the slide has room left", whatever the item's weight
FitsAnyRoom(remaining, length) == remaining > 0

\* room for the item and a line to spare
FitsStrict(remaining, length) == remaining > length

\* remaining_lines[i] >= length
Fits(remaining, length) == remaining >= length

\* the scan run from the newest slide down: the last slide that fits
LastFit(remaining, length) ==
    IF \E i \in DOMAIN remaining : Fits(remaining[i], length)
    THEN CHOOSE i \in DOMAIN remaining :
            /\ Fits(remaining[i], length)
            /\ \A j \in (i + 1)..Len(remaining) : ~Fits(remaining[j], length)
    ELSE 0

\* the inner loop: the first slide, in creation order, that fits; 0 if none
FirstFit(remaining, length) ==
    IF \E i \in DOMAIN remaining : Fits(remaining[i], length)
    THEN CHOOSE i \in DOMAIN remaining :
            /\ Fits(remaining[i], length)
            /\ \A j \in 1..(i - 1) : ~Fits(remaining[j], length)
    ELSE 0

\* the counter left as it was
AfterPlacingUnchanged(remaining, length) == remaining

\* remaining_lines[i] -= length
AfterPlacing(remaining, length) == remaining - length

\* [length]: the weight stored where the index belongs
NewSlideOfLength(index, length) == <<length>>

\* [index], the slide opened for an item
NewSlide(index, length) == <<index>>

\* the operands the wrong way round
NewRemainingSwapped(capacity, length) == length - capacity

\* a new slide counted as empty although it holds the item
NewRemainingFull(capacity, length) == capacity

\* lines_per_slide - length
NewRemaining(capacity, length) == capacity - length

---------------------------------------------------------------------------
(* The invocation, one action per step.                                    *)

\* The generator as constructed (src/main.py:30-35), nothing fetched, no
\* presentation opened.
InitReport ==
    /\ milestone_info = <<>>
    /\ result = <<>>
    /\ milestone_data = [Active |-> <<>>, Inactive |-> <<>>]
    /\ milestone_update_counter = 0
    /\ milestone_counter = 1
    /\ report_tables = 0
    /\ rendered = <<>>
    /\ xml_slides = <<>>
    /\ slides_indices = <<>>
    /\ slides_before = <<>>
    /\ calls = <<>>

Init ==
    /\ paragraph_lengths = <<>>
    /\ lines_per_slide = DefaultLinesPerSlide
    /\ paragraph_indices = <<>>
    /\ pos = 0
    /\ slides = <<>>
    /\ remaining_lines = <<>>
    /\ pc = "idle"
    /\ memo = <<>>
    /\ InitReport

\* The function is entered: lines 1-4.  slides and remaining_lines are
\* locals, made anew by every invocation.
Enter(lists, caps) ==
    /\ \E lengths \in lists, capacity \in caps :
          /\ paragraph_lengths' = lengths
          /\ lines_per_slide' = capacity
          /\ paragraph_indices' = SortedIndices(lengths)
    /\ pos' = 0
    /\ slides' = InitialSlides
    /\ remaining_lines' = <<>>
    /\ pc' = "loop"
    /\ memo' = IF memo = <<>> THEN memo
               ELSE <<[memo[1] EXCEPT !.later = IF @ < 2 THEN @ + 1 ELSE 2]>>
    /\ UNCHANGED reportVars

\* the first invocation
Call(lists, caps) == pc = "idle" /\ Enter(lists, caps)

\* a further invocation, after an earlier one has returned
CallAgain(lists, caps) == pc = "done" /\ Enter(lists, caps)

\* The inner loop without its break: the item goes into every slide that fits.
PlaceInEveryFittingSlide ==
    /\ pc = "loop"
    /\ pos < Len(paragraph_indices)
    /\ LET index == paragraph_indices[pos + 1]
           length == LengthOf(paragraph_lengths, index)
       IN /\ FirstFit(remaining_lines, length) # 0
          /\ slides' = [i \in DOMAIN slides |->
                          IF Fits(remaining_lines[i], length)
                          THEN Append(slides[i], index) ELSE slides[i]]
          /\ remaining_lines' = [i \in DOMAIN remaining_lines |->
                          IF Fits(remaining_lines[i], length)
                          THEN AfterPlacing(remaining_lines[i], length)
                          ELSE remaining_lines[i]]
    /\ pos' = pos + 1
    /\ UNCHANGED <<paragraph_lengths, lines_per_slide, paragraph_indices, pc, memo>>
    /\ UNCHANGED reportVars

\* The placing that also marks the item as used up in the caller's list.
PlaceAndConsume ==
    /\ pc = "loop"
    /\ pos < Len(paragraph_indices)
    /\ LET index == paragraph_indices[pos + 1]
           length == LengthOf(paragraph_lengths, index)
           i == FirstFit(remaining_lines, length)
       IN /\ i # 0
          /\ slides' = [slides EXCEPT ![i] = Append(@, index)]
          /\ remaining_lines' =
                [remaining_lines EXCEPT ![i] = AfterPlacing(@, length)]
          /\ paragraph_lengths' = [paragraph_lengths EXCEPT ![index + 1] = 0]
    /\ pos' = pos + 1
    /\ UNCHANGED <<lines_per_slide, paragraph_indices, pc, memo>>
    /\ UNCHANGED reportVars

\* One pass of the outer loop in which the inner loop finds a slide and
\* breaks: lines 6-14.
PlaceInOpenSlide ==
    /\ pc = "loop"
    /\ pos < Len(paragraph_indices)
    /\ LET index == paragraph_indices[pos + 1]
           length == LengthOf(paragraph_lengths, index)
           i == FirstFit(remaining_lines, length)
       IN /\ i # 0
          /\ slides' = [slides EXCEPT ![i] = Append(@, index)]
          /\ remaining_lines' =
                [remaining_lines EXCEPT ![i] = AfterPlacing(@, length)]
    /\ pos' = pos + 1
    /\ UNCHANGED <<paragraph_lengths, lines_per_slide, paragraph_indices, pc, memo>>
    /\ UNCHANGED reportVars

\* The new slide without its counter: remaining_lines.append(...) left out.
OpenNewSlideNoCounter ==
    /\ pc = "loop"
    /\ pos < Len(paragraph_indices)
    /\ LET index == paragraph_indices[pos + 1]
           length == LengthOf(paragraph_lengths, index)
       IN /\ FirstFit(remaining_lines, length) = 0
          /\ slides' = Append(slides, NewSlide(index, length))
    /\ pos' = pos + 1
    /\ UNCHANGED <<paragraph_lengths, lines_per_slide, paragraph_indices,
                   remaining_lines, pc, memo>>
    /\ UNCHANGED reportVars

\* One pass of the outer loop in which no slide fits: lines 6-10, 15-17.
OpenNewSlide ==
    /\ pc = "loop"
    /\ pos < Len(paragraph_indices)
    /\ LET index == paragraph_indices[pos + 1]
           length == LengthOf(paragraph_lengths, index)
       IN /\ FirstFit(remaining_lines, length) = 0
          /\ slides' = Append(slides, NewSlide(index, length))
          /\ remaining_lines' =
                Append(remaining_lines, NewRemaining(lines_per_slide, length))
    /\ pos' = pos + 1
    /\ UNCHANGED <<paragraph_lengths, lines_per_slide, paragraph_indices, pc, memo>>
    /\ UNCHANGED reportVars

\* return slides indented into the loop body: the function returns after
\* the first pass (or at once, for no items).
ReturnInsideLoop ==
    /\ pc = "loop"
    /\ pos >= 1 \/ pos = Len(paragraph_indices)
    /\ pc' = "done"
    /\ UNCHANGED <<paragraph_lengths, lines_per_slide, paragraph_indices, pos,
                   slides, remaining_lines, memo>>
    /\ UNCHANGED reportVars

\* The loop is exhausted: return slides (line 19).
Return ==
    /\ pc = "loop"
    /\ pos = Len(paragraph_indices)
    /\ pc' = "done"
    /\ UNCHANGED <<paragraph_lengths, lines_per_slide, paragraph_indices, pos,
                   slides, remaining_lines, memo>>
    /\ UNCHANGED reportVars

\* The same return, with the caller keeping the plan it got beside the
\* inputs it gave; later marks the invocations entered since.
ReturnKept ==
    /\ pc = "loop"
    /\ pos = Len(paragraph_indices)
    /\ memo = <<>>
    /\ pc' = "done"
    /\ memo' = <<[lengths |-> paragraph_lengths, capacity |-> lines_per_slide,
                  plan |-> slides, later |-> 0]>>
    /\ UNCHANGED <<paragraph_lengths, lines_per_slide, paragraph_indices, pos,
                   slides, remaining_lines>>
    /\ UNCHANGED reportVars

Next ==
    \/ Call(SmallLists, SmallCaps)
    \/ PlaceInOpenSlide
    \/ OpenNewSlide
    \/ Return

Spec == Init /\ [][Next]_vars

\* Invocation after invocation, on any inputs, one plan being kept.
NextDet ==
    \/ Call(DetLists, DetCaps)
    \/ CallAgain(DetLists, DetCaps)
    \/ PlaceInOpenSlide
    \/ OpenNewSlide
    \/ Return
    \/ ReturnKept

SpecDet == Init /\ [][NextDet]_vars

\* One weight list packed again and again at varying capacities, one plan
\* being kept.
NextMono ==
    \/ Call(MonoLists, MonoCaps)
    \/ CallAgain({paragraph_lengths}, MonoCaps)
    \/ PlaceInOpenSlide
    \/ OpenNewSlide
    \/ Return
    \/ ReturnKept

SpecMono == Init /\ [][NextMono]_vars

\* One invocation, on longer lists of few weights.
NextOpt ==
    \/ Call(OptLists, SmallCaps)
    \/ PlaceInOpenSlide
    \/ OpenNewSlide
    \/ Return

SpecOpt == Init /\ [][NextOpt]_vars

\* One invocation, run to its end: the function is sequential code without
\* suspension points, so a step that can be taken is taken.
Step == PlaceInOpenSlide \/ OpenNewSlide \/ Return

SpecLive == Spec /\ WF_vars(Step)

---------------------------------------------------------------------------
(* What the claims speak of.                                               *)

ItemCount == Len(paragraph_lengths)
Items == 0..(ItemCount - 1)
Running == pc \in {"loop", "done"}

\* the places <<slide, position>> of the plan
Places == UNION {{<<i, j>> : j \in DOMAIN slides[i]} : i \in DOMAIN slides}

\* the places at which item x stands
PlacesOf(x) == {p \in Places : slides[p[1]][p[2]] = x}

RECURSIVE SumOfLengths(_)
SumOfLengths(lengths) ==
    IF lengths = <<>> THEN 0 ELSE Head(lengths) + SumOfLengths(Tail(lengths))

\* the total weight of the items of a slide
RECURSIVE SlideWeight(_)
SlideWeight(slide) ==
    IF slide = <<>> THEN 0
    ELSE LengthOf(paragraph_lengths, Head(slide)) + SlideWeight(Tail(slide))

Oversized(x) == LengthOf(paragraph_lengths, x) > lines_per_slide

\* descending weight, equal weights by increasing original index
InSortedOrder(slide) ==
    \A j, k \in DOMAIN slide :
        j < k =>
            \/ LengthOf(paragraph_lengths, slide[j]) > LengthOf(paragraph_lengths, slide[k])
            \/ /\ LengthOf(paragraph_lengths, slide[j]) = LengthOf(paragraph_lengths, slide[k])
               /\ slide[j] < slide[k]

\* C1: the plan returned for a non-empty weight list holds every index
\* 0..n-1 at exactly one place, and nothing but these indices.
C1_Partition ==
    (pc = "done" /\ ItemCount > 0) =>
        /\ \A x \in Items : Cardinality(PlacesOf(x)) = 1
        /\ \A p \in Places : slides[p[1]][p[2]] \in Items

C1_Witness ==
    /\ pc = "done"
    /\ ItemCount = 3
    /\ Len(slides) = 2
    /\ Len(slides[1]) = 2

\* C2: in every state of the loop and in the returned plan, a slide's total
\* weight is at most the capacity, unless the slide is a single item that is
\* itself heavier than the capacity.
C2_CapacityBound ==
    Running =>
        \A i \in DOMAIN slides :
            \/ SlideWeight(slides[i]) <= lines_per_slide
            \/ Len(slides[i]) = 1 /\ Oversized(slides[i][1])

C2_Witness ==
    /\ pc = "loop"
    /\ \E i \in DOMAIN slides : Len(slides[i]) = 1 /\ Oversized(slides[i][1])
    /\ \E i \in DOMAIN slides :
          Len(slides[i]) = 2 /\ SlideWeight(slides[i]) = lines_per_slide

\* C3: an item heavier than the capacity stands alone in its slide, whose
\* remaining capacity is capacity - weight, below zero; this holds in every
\* state, so nothing (not even a weight of 0) joins it later; and the
\* returned plan holds every such item.
C3_OversizedAlone ==
    Running =>
        /\ \A i \in DOMAIN slides :
              (\E j \in DOMAIN slides[i] : Oversized(slides[i][j])) =>
                  /\ Len(slides[i]) = 1
                  /\ remaining_lines[i] =
                        lines_per_slide - LengthOf(paragraph_lengths, slides[i][1])
                  /\ remaining_lines[i] < 0
        /\ pc = "done" =>
              \A x \in Items : Oversized(x) => PlacesOf(x) # {}

C3_Witness ==
    /\ pc = "done"
    /\ \E i \in DOMAIN slides :
          /\ Oversized(slides[i][1])
          /\ \E k \in DOMAIN slides :
                k > i /\ LengthOf(paragraph_lengths, slides[k][1]) = 0

\* C7: an empty weight list yields the empty plan, whatever the capacity.
C7_EmptyInput ==
    (pc = "done" /\ paragraph_lengths = <<>>) => slides = <<>>

C7_Witness ==
    pc = "done" /\ paragraph_lengths = <<>> /\ lines_per_slide = MaxCap

\* C8: when the weights of a non-empty list sum to at most the capacity, the
\* plan is one slide, holding all indices by descending weight, equal weights
\* by increasing index.
C8_AllFitInOne ==
    (pc = "done" /\ ItemCount > 0
       /\ SumOfLengths(paragraph_lengths) <= lines_per_slide) =>
        /\ Len(slides) = 1
        /\ Len(slides[1]) = ItemCount
        /\ {slides[1][j] : j \in DOMAIN slides[1]} = Items
        /\ InSortedOrder(slides[1])

C8_Witness ==
    /\ pc = "done"
    /\ paragraph_lengths = <<1, 3, 1>>
    /\ lines_per_slide = 5
    /\ slides = << <<1, 0, 2>> >>

\* C9: one item lighter than the capacity yields the plan [[0]].
C9_SingleItem ==
    (pc = "done" /\ ItemCount = 1 /\ paragraph_lengths[1] < lines_per_slide) =>
        slides = << <<0>> >>

C9_Witness ==
    /\ pc = "done"
    /\ ItemCount = 1
    /\ paragraph_lengths[1] > 0
    /\ paragraph_lengths[1] < lines_per_slide

\* C10: for the weights [5,3,5] and capacity 8 the items are taken in the
\* order 0, 2, 1: index 0 opens slide 1 (3 left), index 2 opens slide 2
\* (3 left), index 1 joins slide 1; the plan returned is [[0,1],[2]].
C10_WorkedExample ==
    (Running /\ paragraph_lengths = <<5, 3, 5>> /\ lines_per_slide = 8) =>
        /\ paragraph_indices = <<0, 2, 1>>
        /\ pos = 0 => slides = <<>> /\ remaining_lines = <<>>
        /\ pos = 1 => slides = << <<0>> >> /\ remaining_lines = <<3>>
        /\ pos = 2 => slides = << <<0>>, <<2>> >> /\ remaining_lines = <<3, 3>>
        /\ pos = 3 => slides = << <<0, 1>>, <<2>> >> /\ remaining_lines = <<0, 3>>
        /\ pc = "done" => pos = 3

C10_Witness ==
    /\ pc = "done"
    /\ paragraph_lengths = <<5, 3, 5>>
    /\ lines_per_slide = 8
    /\ Len(slides) = 2

\* C6: an invocation on the inputs of an earlier one returns the plan the
\* earlier one returned, slide for slide and index for index, whatever was
\* invoked in between.
C6_Determinism ==
    (pc = "done" /\ memo # <<>>
       /\ memo[1].lengths = paragraph_lengths
       /\ memo[1].capacity = lines_per_slide) =>
        slides = memo[1].plan

\* the kept plan met again two invocations later
C6_Witness ==
    /\ pc = "done"
    /\ memo # <<>>
    /\ memo[1].later = 2
    /\ memo[1].lengths = paragraph_lengths
    /\ memo[1].capacity = lines_per_slide
    /\ Len(slides) = 2

\* the kept plan is one of the weight list now packed
SameWeightsKept == memo # <<>> /\ memo[1].lengths = paragraph_lengths

\* C4 as claimed: of two plans for one weight list, the one for the larger
\* capacity has no more slides than the one for the smaller capacity.
C4_Monotone ==
    (pc = "done" /\ SameWeightsKept) =>
        /\ memo[1].capacity < lines_per_slide => Len(slides) <= Len(memo[1].plan)
        /\ lines_per_slide < memo[1].capacity => Len(memo[1].plan) <= Len(slides)

\* at most 2k - 1 slides where k were used; none where none were
AtMostTwiceLessOne(more, k) == more <= (IF k = 0 THEN 0 ELSE 2 * k - 1)

\* C4 amended: of two plans for one weight list, the one for the larger
\* capacity has at most 2k - 1 slides where the one for the smaller capacity
\* has k >= 1 (so one slide stays one slide), and none where it has none.
C4_BoundedGrowth ==
    (pc = "done" /\ SameWeightsKept) =>
        /\ memo[1].capacity < lines_per_slide =>
              AtMostTwiceLessOne(Len(slides), Len(memo[1].plan))
        /\ lines_per_slide < memo[1].capacity =>
              AtMostTwiceLessOne(Len(memo[1].plan), Len(slides))

\* a larger capacity that costs a slide
C4_Witness ==
    /\ pc = "done"
    /\ SameWeightsKept
    /\ memo[1].capacity < lines_per_slide
    /\ Len(memo[1].plan) = 3
    /\ Len(slides) = 4

\* the total weight of a set of items
RECURSIVE WeightOfItems(_)
WeightOfItems(S) ==
    IF S = {} THEN 0
    ELSE LET x == CHOOSE y \in S : TRUE
         IN LengthOf(paragraph_lengths, x) + WeightOfItems(S \ {x})

SmallestOf(S) == CHOOSE k \in S : \A j \in S : k <= j

\* the fewest slides that hold the items of S, none above capacity: the
\* slide of the lowest index takes some of the others with it
RECURSIVE FewestSlides(_)
FewestSlides(S) ==
    IF S = {} THEN 0
    ELSE LET x == SmallestOf(S)
             with == {T \in SUBSET (S \ {x}) :
                        WeightOfItems(T \cup {x}) <= lines_per_slide}
         IN 1 + SmallestOf({FewestSlides(S \ (T \cup {x})) : T \in with})

NoneOversized == \A x \in Items : ~Oversized(x)

\* C5 as claimed: when no weight exceeds the capacity, the plan has the
\* fewest slides any assignment within capacity has.
C5_Minimal ==
    (pc = "done" /\ NoneOversized) => Len(slides) = FewestSlides(Items)

\* C5 amended: when no weight exceeds the capacity, every slide of the plan
\* is within capacity, so the plan has at least the fewest slides m any such
\* assignment has; and it has at most 2m - 1 (none for the empty list), so
\* it has exactly m when m <= 1.
C5_WithinTwiceMinimal ==
    (pc = "done" /\ NoneOversized) =>
        /\ \A i \in DOMAIN slides : SlideWeight(slides[i]) <= lines_per_slide
        /\ FewestSlides(Items) <= Len(slides)
        /\ AtMostTwiceLessOne(Len(slides), FewestSlides(Items))

\* a plan of three slides where two suffice
C5_Witness ==
    /\ pc = "done"
    /\ NoneOversized
    /\ Len(slides) = 3
    /\ FewestSlides(Items) = 2

\* the item the next pass of the loop takes
NextIndex == paragraph_indices[pos + 1]

\* C11: on every list of weights >= 0 (0 included) and every capacity >= 1
\* the invocation reaches no error: the scan over range(len(slides)) reads
\* remaining_lines inside its bounds, the index taken next names a weight of
\* the list, the loop always has a step to take, and what is returned is a
\* plan, a list of lists of indices.
C11_Total ==
    Running =>
        /\ \A i \in 1..Len(slides) : i \in DOMAIN remaining_lines
        /\ pos <= Len(paragraph_indices)
        /\ pos < Len(paragraph_indices) =>
              NextIndex + 1 \in DOMAIN paragraph_lengths
        /\ pc = "loop" => ENABLED Step
        /\ pc = "done" =>
              \A i \in DOMAIN slides :
                  \A j \in DOMAIN slides[i] : slides[i][j] \in Items

\* a plan returned for a list with a weight of 0 and a weight above capacity
C11_Witness ==
    /\ pc = "done"
    /\ ItemCount = 3
    /\ \E x \in Items : LengthOf(paragraph_lengths, x) = 0
    /\ \E x \in Items : Oversized(x)
    /\ Len(slides) = 2

Taken == [k \in 1..pos |-> paragraph_indices[k]]

\* C13: the processing order lists every index once, by non-increasing
\* weight and, among equal weights, by increasing original index; and the
\* items placed after pos passes are exactly the first pos of that order.
C13_ProcessingOrder ==
    Running =>
        /\ Len(paragraph_indices) = ItemCount
        /\ {paragraph_indices[k] : k \in DOMAIN paragraph_indices} = Items
        /\ InSortedOrder(paragraph_indices)
        /\ pos <= ItemCount
        /\ {slides[p[1]][p[2]] : p \in Places} = {Taken[k] : k \in 1..pos}
        /\ Cardinality(Places) = pos

\* two of three items placed, the list unsorted and holding a tie
C13_Witness ==
    /\ pc = "loop"
    /\ pos = 2
    /\ paragraph_lengths = <<2, 4, 2>>
    /\ paragraph_indices = <<1, 0, 2>>

\* a pass of the outer loop is being taken
Pass == pc = "loop" /\ pos' = pos + 1

NextLength == LengthOf(paragraph_lengths, NextIndex)

\* the open slides with room for the item taken next
Roomy == {i \in DOMAIN slides : remaining_lines[i] >= NextLength}

\* C14: a pass that finds an open slide with remaining >= w appends the item
\* to the earliest-created such slide, lowers that slide's counter by
\* exactly w, and opens no slide.
C14_FirstFitStep ==
    [][(Pass /\ Roomy # {}) =>
          \A i \in Roomy :
              (\A j \in Roomy : i <= j) =>
                  /\ slides'[i] = Append(slides[i], NextIndex)
                  /\ remaining_lines'[i] = remaining_lines[i] - NextLength
                  /\ Len(slides') = Len(slides)
                  /\ Len(remaining_lines') = Len(remaining_lines)]_vars

\* an item stands second in slide 1 although slide 2 had room for it too
C14_Witness ==
    /\ pc = "loop"
    /\ Len(slides) = 2
    /\ Len(slides[1]) = 2
    /\ LengthOf(paragraph_lengths, slides[1][2]) > 0
    /\ pos = 3
    /\ remaining_lines[2] >= LengthOf(paragraph_lengths, slides[1][2])

\* C15: a pass opens a slide exactly when no open slide has remaining >= w;
\* the new slide comes after all others, holds the item alone, and has
\* capacity - w left, below zero when w exceeds the capacity.
C15_NewSlideStep ==
    [][Pass =>
          /\ (Len(slides') > Len(slides)) <=> (Roomy = {})
          /\ Roomy = {} =>
                /\ slides' = Append(slides, <<NextIndex>>)
                /\ remaining_lines' =
                      Append(remaining_lines, lines_per_slide - NextLength)]_vars

\* a second slide opened for an item above capacity, its counter below zero
C15_Witness ==
    /\ pc = "loop"
    /\ Len(slides) = 2
    /\ Len(slides[2]) = 1
    /\ Oversized(slides[2][1])
    /\ remaining_lines[2] < 0

\* C16: in the returned plan no item could move to an earlier slide: for
\* slides i < j and every item x of slide j, the weight of x is more than
\* the capacity less the total weight of slide i.
C16_NoEarlierSlideFits ==
    pc = "done" =>
        \A i, j \in DOMAIN slides :
            i < j =>
                \A k \in DOMAIN slides[j] :
                    LengthOf(paragraph_lengths, slides[j][k])
                        > lines_per_slide - SlideWeight(slides[i])

\* a plan whose second slide holds two items and whose first is not full
C16_Witness ==
    /\ pc = "done"
    /\ Len(slides) = 2
    /\ Len(slides[2]) = 2
    /\ SlideWeight(slides[1]) < lines_per_slide

\* the weight of the first item of slide i
FirstWeight(i) == LengthOf(paragraph_lengths, slides[i][1])

\* C17: in the returned plan every slide lists its items by non-increasing
\* weight, equal weights by increasing original index, and the first items
\* of the slides have non-increasing weights in slide order.
C17_OrderInsidePlan ==
    pc = "done" =>
        /\ \A i \in DOMAIN slides : InSortedOrder(slides[i])
        /\ \A i, j \in DOMAIN slides : i < j => FirstWeight(i) >= FirstWeight(j)

\* two slides, the second listing a tie of two items, lighter than the first
C17_Witness ==
    /\ pc = "done"
    /\ Len(slides) = 2
    /\ FirstWeight(1) > FirstWeight(2)
    /\ Len(slides[2]) = 2
    /\ LengthOf(paragraph_lengths, slides[2][1]) = LengthOf(paragraph_lengths, slides[2][2])
    /\ paragraph_indices # <<0, 1, 2>>

\* C20: in every state of the loop slides and remaining_lines are equally
\* long, and each counter is the capacity less the total weight of the
\* items now in its slide.
C20_CounterConsistency ==
    Running =>
        /\ Len(slides) = Len(remaining_lines)
        /\ \A i \in DOMAIN slides :
              remaining_lines[i] = lines_per_slide - SlideWeight(slides[i])

\* mid-loop: a slide of two items beside a slide whose counter is below zero
C20_Witness ==
    /\ pc = "loop"
    /\ Len(slides) = 2
    /\ remaining_lines[1] < 0
    /\ Len(slides[2]) = 2
    /\ remaining_lines[2] > 0

\* C18: a pass of the loop adds the item it takes at the end of one slide,
\* an open one or a new last one, and leaves every other slide and every
\* other counter as they were; the return changes no slide.  So nothing is
\* removed, moved or reordered, and the plan lists slides as created.
C18_AppendOnly ==
    [][/\ Pass =>
             \E i \in DOMAIN slides' :
                 /\ \/ /\ i \in DOMAIN slides
                       /\ Len(slides') = Len(slides)
                       /\ slides'[i] = Append(slides[i], NextIndex)
                    \/ /\ i = Len(slides) + 1
                       /\ Len(slides') = i
                       /\ slides'[i] = <<NextIndex>>
                 /\ Len(remaining_lines') = Len(slides')
                 /\ \A j \in DOMAIN slides :
                       j # i => /\ slides'[j] = slides[j]
                                /\ remaining_lines'[j] = remaining_lines[j]
       /\ (pc = "loop" /\ pc' = "done") =>
             /\ slides' = slides
             /\ remaining_lines' = remaining_lines]_vars

\* mid-loop: an item has joined slide 1 while slide 2, which had room for
\* it, kept its single item
C18_Witness ==
    /\ pc = "loop"
    /\ pos = 3
    /\ Len(slides) = 2
    /\ Len(slides[1]) = 2
    /\ Len(slides[2]) = 1
    /\ remaining_lines[2] >= LengthOf(paragraph_lengths, slides[1][2])
    /\ remaining_lines[2] >= 0

\* C19: an invocation on n items ends, after exactly n passes of the loop:
\* every step of the loop places one item, the scan of a pass stops within
\* the open slides, the return comes when all n are placed, and a running
\* loop always reaches its return, weights of 0 and above capacity included.
C19_Termination ==
    /\ [](Running =>
            /\ pos <= ItemCount
            /\ Cardinality(Places) = pos
            /\ pos < ItemCount =>
                  FirstFit(remaining_lines, NextLength) \in 0..Len(slides)
            /\ pc = "done" => pos = ItemCount)
    /\ [][(pc = "loop" /\ pc' = "loop") => pos' = pos + 1]_vars
    /\ (pc = "loop") ~> (pc = "done")

\* returned after three passes, over a weight of 0 and a weight above capacity
C19_Witness ==
    /\ pc = "done"
    /\ pos = 3
    /\ \E x \in Items : LengthOf(paragraph_lengths, x) = 0
    /\ \E x \in Items : Oversized(x)

---------------------------------------------------------------------------
(* The fill of the returned slides.                                        *)

AllPositive == \A x \in Items : LengthOf(paragraph_lengths, x) > 0

\* the slides filled to half the capacity or less
LightSlides == {i \in DOMAIN slides : 2 * SlideWeight(slides[i]) <= lines_per_slide}

\* C21: for positive weights and a positive capacity, the returned plan has
\* at most one slide whose total weight is at most half the capacity.
C21_AtMostOneLightSlide ==
    (pc = "done" /\ AllPositive /\ lines_per_slide > 0) =>
        Cardinality(LightSlides) <= 1

\* a returned plan of three slides, the last one no more than half full
C21_Witness ==
    /\ pc = "done"
    /\ AllPositive
    /\ Len(slides) = 3
    /\ LightSlides = {3}

\* C22: no slide is ever empty, in any state of an invocation and in the
\* returned plan; there are never more slides than items, and a returned
\* plan for a non-empty input has at least one slide.
C22_NoEmptySlides ==
    Running =>
        /\ \A i \in DOMAIN slides : slides[i] # <<>>
        /\ Len(slides) <= ItemCount
        /\ (pc = "done" /\ ItemCount >= 1) => Len(slides) >= 1

\* a returned plan with as many slides as items, and one with fewer
C22_Witness ==
    /\ pc = "done"
    /\ ItemCount = 3
    /\ Len(slides) = 2
    /\ \A i \in DOMAIN slides : slides[i] # <<>>

---------------------------------------------------------------------------
(* The example usage that closes src/test.py.                              *)

\* paragraph_lengths of the example usage
ExampleLengths == <<4, 24, 18, 6, 5, 17, 19, 2, 6, 3, 9, 7, 3, 2, 19>>

\* One invocation, on the small lists or on the example's list, at a small
\* capacity or at the default one (the example passes no capacity).
NextExample ==
    \/ Call(SmallLists \cup {ExampleLengths}, SmallCaps \cup {DefaultLinesPerSlide})
    \/ PlaceInOpenSlide
    \/ OpenNewSlide
    \/ Return

SpecExample == Init /\ [][NextExample]_vars

\* C24: the example's fifteen weights, packed at the default capacity 25,
\* come back as the six slides [[1],[6,3],[14,8],[2,11],[5,4,9],
\* [10,0,12,7,13]].
C24_FifteenItemExample ==
    (pc = "done" /\ paragraph_lengths = ExampleLengths
                 /\ lines_per_slide = DefaultLinesPerSlide) =>
        slides = << <<1>>, <<6, 3>>, <<14, 8>>, <<2, 11>>, <<5, 4, 9>>,
                    <<10, 0, 12, 7, 13>> >>

\* the example's invocation has returned a plan of six slides
C24_Witness ==
    /\ pc = "done"
    /\ paragraph_lengths = ExampleLengths
    /\ lines_per_slide = DefaultLinesPerSlide
    /\ Len(slides) = 6

---------------------------------------------------------------------------
(* The method variant, RallyReportGenerator.distribute_paragraphs_to_      *)
(* slides (src/main.py:310-333): it packs milestone records by their 'len' *)
(* and returns the records themselves, grouped.  A record is modelled by   *)
(* its 'Milestone' and its 'len'; its 'us', a list of len story titles,   *)
(* is not read by the method.                                              *)

MethodLen == 3
MethodWeight == 2
MethodCap == 3

MilestoneNames == {"M1", "M2"}

MilestoneRecords(weights) ==
    {[Milestone |-> name, len |-> w] : name \in MilestoneNames, w \in weights}

MethodInfos == Lists(MethodLen, MilestoneRecords(0..MethodWeight))
MethodCaps == 1..MethodCap

\* [i.get('len') for i in milestone_info]
LensOf(info) == [k \in DOMAIN info |-> info[k].len]

\* one pass of the method's loop (lines 315-326) over the locals st
MethodPass(st, index, lengths, capacity) ==
    LET length == LengthOf(lengths, index)
        i == FirstFit(st.remaining_lines, length)
    IN IF i # 0
       THEN [slides |-> [st.slides EXCEPT ![i] = Append(@, index)],
             remaining_lines |->
                [st.remaining_lines EXCEPT ![i] = AfterPlacing(@, length)]]
       ELSE [slides |-> Append(st.slides, NewSlide(index, length)),
             remaining_lines |->
                Append(st.remaining_lines, NewRemaining(capacity, length))]

\* the locals after the first k passes of the loop
RECURSIVE MethodLoop(_, _, _, _)
MethodLoop(indices, k, lengths, capacity) ==
    IF k = 0 THEN [slides |-> <<>>, remaining_lines |-> <<>>]
    ELSE MethodPass(MethodLoop(indices, k - 1, lengths, capacity),
                    indices[k], lengths, capacity)

\* the extraction with its test off by one: the last record is left out
ExtractedObjectsButLast(info, indices) ==
    LET kept == SelectSeq(indices, LAMBDA index : index < Len(info) - 1)
    IN [k \in DOMAIN kept |-> info[kept[k] + 1]]

\* [milestone_info[index] for index in indices if index < len(milestone_info)]
ExtractedObjects(info, indices) ==
    LET kept == SelectSeq(indices, LAMBDA index : index < Len(info))
    IN [k \in DOMAIN kept |-> info[kept[k] + 1]]

\* what the method returns: lines 311-333
MethodResult(info, capacity) ==
    LET lengths == LensOf(info)
        indices == SortedIndices(lengths)
        plan == MethodLoop(indices, Len(indices), lengths, capacity).slides
    IN [i \in DOMAIN plan |-> ExtractedObjects(info, plan[i])]

\* The method is called and returns.
MethodCall(infos, caps) ==
    /\ pc = "idle"
    /\ \E info \in infos, capacity \in caps :
          /\ milestone_info' = info
          /\ lines_per_slide' = capacity
          /\ result' = MethodResult(info, capacity)
    /\ pc' = "returned"
    /\ UNCHANGED <<paragraph_lengths, paragraph_indices, pos, slides,
                   remaining_lines, memo>>
    /\ UNCHANGED <<renderVars, deckVars, teamVars>>

\* The standalone function is called on the records' 'len' values, at the
\* capacity the method was given.
CallOnLengths ==
    /\ pc = "returned"
    /\ Enter({LensOf(milestone_info)}, {lines_per_slide})

NextMethod ==
    \/ MethodCall(MethodInfos, MethodCaps)
    \/ CallOnLengths
    \/ PlaceInOpenSlide
    \/ OpenNewSlide
    \/ Return

SpecMethod == Init /\ [][NextMethod]_vars

\* a plan of indices with each index replaced by the record at that index
RecordsOf(plan, info) ==
    [i \in DOMAIN plan |-> [k \in DOMAIN plan[i] |-> info[plan[i][k] + 1]]]

\* the positions <<group, place>> of the method's result
ResultPlaces == UNION {{<<i, k>> : k \in DOMAIN result[i]} : i \in DOMAIN result}

\* C23: the method returns the standalone function's plan for the records'
\* 'len' values at the same capacity, with each index replaced by the
\* record at that index: as many groups, in the same order, each in the
\* same order, and as many records in all as were handed in.
C23_VariantsAgree ==
    (pc = "done" /\ paragraph_lengths = LensOf(milestone_info)) =>
        /\ result = RecordsOf(slides, milestone_info)
        /\ Len(result) = Len(slides)
        /\ Cardinality(ResultPlaces) = Len(milestone_info)

\* both have returned for three records, two of them of one 'len' but
\* different names, packed into two groups
C23_Witness ==
    /\ pc = "done"
    /\ Len(milestone_info) = 3
    /\ paragraph_lengths = LensOf(milestone_info)
    /\ milestone_info[1].len = milestone_info[3].len
    /\ milestone_info[1].Milestone # milestone_info[3].Milestone
    /\ Len(result) = 2
    /\ Len(result[1]) = 2

---------------------------------------------------------------------------
(* The renderer of the milestone plan: milestonedetails packs the active   *)
(* and the inactive milestones (src/main.py:300-308), update_ppt_with_data *)
(* copies the "Milestone Report" slide (lines 547-573) and _update_table   *)
(* fills one such table per call (lines 482-530).  The tables of other     *)
(* kinds, which the renderer fills from other data, are left out; a        *)
(* template is taken to hold no "Completed Milestones" table, whose branch *)
(* advances the same counter.                                              *)

\* lines_per_slide as milestonedetails passes it
MilestoneLinesPerSlide == 20

RenderLen == 2
MaxTemplateTables == 2

\* a milestone of one story, and one that fills a slide
RenderWeights == {1, MilestoneLinesPerSlide}
RenderInfos == Lists(RenderLen, MilestoneRecords(RenderWeights))

\* "Milestone Report" tables a template may hold
TemplateTables == 0..MaxTemplateTables

\* Python's list[idx] is defined for -len <= idx < len
InRange(list, idx) == -Len(list) <= idx /\ idx < Len(list)

\* the position, from 0, that list[idx] reads
PositionOf(list, idx) == IF idx >= 0 THEN idx ELSE Len(list) + idx

\* the counter used as it stands
InactiveIndexUnshifted(counter, nActive) == counter

\* milestone_update_counter - len(active_milestones_list)
InactiveIndex(counter, nActive) == counter - nActive

\* the titles written for a group: f"{milestone_counter}. {Milestone}"
TitlesOf(group, first) ==
    [k \in DOMAIN group |-> <<first + k - 1, group[k].Milestone>>]

\* milestonedetails with split=True: both lists packed at capacity 20
FetchMilestones(infos) ==
    /\ pc = "idle"
    /\ \E active \in infos, inactive \in infos :
          milestone_data' =
             [Active |-> MethodResult(active, MilestoneLinesPerSlide),
              Inactive |-> MethodResult(inactive, MilestoneLinesPerSlide)]
    /\ pc' = "fetched"
    /\ UNCHANGED <<packerVars, methodVars, deckVars, teamVars>>
    /\ UNCHANGED <<milestone_update_counter, milestone_counter, report_tables,
                   rendered>>

\* update_ppt_with_data, lines 547-573: the first "Milestone Report" slide,
\* if the template has one, is copied milestone_slides_count - 1 times.
DuplicateMilestoneSlide(templates) ==
    /\ pc = "fetched"
    /\ \E found \in templates :
          LET milestone_slides_count ==
                  Len(milestone_data.Active) + Len(milestone_data.Inactive)
              copies == IF milestone_slides_count >= 1
                        THEN milestone_slides_count - 1 ELSE 0
          IN report_tables' = IF found = 0 THEN 0 ELSE found + copies
    /\ pc' = "render"
    /\ UNCHANGED <<packerVars, methodVars, deckVars, teamVars>>
    /\ UNCHANGED <<milestone_data, milestone_update_counter, milestone_counter,
                   rendered>>

\* _update_table on the next "Milestone Report" table: lines 483-530.  An
\* index outside the inactive list raises IndexError, which
\* update_ppt_with_data catches (lines 641-643): the update is abandoned.
UpdateTable ==
    /\ pc = "render"
    /\ Len(rendered) < report_tables
    /\ LET active_milestones_list == milestone_data.Active
           inactive_milestones_list == milestone_data.Inactive
           counter == milestone_update_counter
           idx == InactiveIndex(counter, Len(active_milestones_list))
           Filled(kind, position, group) ==
               /\ rendered' = Append(rendered,
                     [list |-> kind, group |-> position,
                      text |-> TitlesOf(group, milestone_counter)])
               /\ milestone_counter' = milestone_counter + Len(group)
               /\ milestone_update_counter' = counter + 1
               /\ pc' = pc
       IN IF active_milestones_list # <<>> /\ counter < Len(active_milestones_list)
          THEN Filled("Active", counter, active_milestones_list[counter + 1])
          ELSE IF inactive_milestones_list # <<>>
          THEN IF InRange(inactive_milestones_list, idx)
               THEN LET position == PositionOf(inactive_milestones_list, idx)
                    IN Filled("Inactive", position,
                              inactive_milestones_list[position + 1])
               ELSE /\ rendered' = Append(rendered,
                          [list |-> "IndexError", group |-> idx, text |-> <<>>])
                    /\ pc' = "failed"
                    /\ UNCHANGED <<milestone_counter, milestone_update_counter>>
          ELSE /\ rendered' = Append(rendered,
                     [list |-> "None", group |-> 0, text |-> <<>>])
               /\ milestone_update_counter' = counter + 1
               /\ pc' = pc
               /\ UNCHANGED milestone_counter
    /\ UNCHANGED <<packerVars, methodVars, deckVars, teamVars>>
    /\ UNCHANGED <<milestone_data, report_tables>>

\* every table has been updated: prs.save (lines 638-640)
SavePresentation ==
    /\ pc = "render"
    /\ Len(rendered) = report_tables
    /\ pc' = "saved"
    /\ UNCHANGED <<packerVars, reportVars>>

NextRender ==
    \/ FetchMilestones(RenderInfos)
    \/ DuplicateMilestoneSlide(TemplateTables)
    \/ UpdateTable
    \/ SavePresentation

SpecRender == Init /\ [][NextRender]_vars

ActiveGroups == Len(milestone_data.Active)
InactiveGroups == Len(milestone_data.Inactive)
PlannedGroups == ActiveGroups + InactiveGroups

\* the tables updated so far, up to as many as the plan has groups
PlannedUpdates ==
    1..(IF Len(rendered) <= PlannedGroups THEN Len(rendered) ELSE PlannedGroups)

\* the Milestone names a table was given, in order
NamesOn(table) == [k \in DOMAIN table.text |-> table.text[k][2]]

NamesOf(group) == [k \in DOMAIN group |-> group[k].Milestone]

\* C25: from milestone_update_counter = 0 and a plan of A active and I
\* inactive groups, A + I >= 1, the first A + I updates of "Milestone
\* Report" tables give table t the active group t-1 for t <= A and the
\* inactive group t-1-A after that; none of them indexes outside a list, the
\* counter is the number of tables updated, and once A + I tables are
\* updated every group is on exactly one of them.
C25_PlanConsumedInOrder ==
    (pc \in {"render", "saved", "failed"} /\ PlannedGroups >= 1) =>
        /\ \A t \in PlannedUpdates :
              IF t <= ActiveGroups
              THEN /\ rendered[t].list = "Active"
                   /\ rendered[t].group = t - 1
                   /\ NamesOn(rendered[t]) = NamesOf(milestone_data.Active[t])
              ELSE /\ rendered[t].list = "Inactive"
                   /\ rendered[t].group = t - 1 - ActiveGroups
                   /\ NamesOn(rendered[t]) =
                         NamesOf(milestone_data.Inactive[t - ActiveGroups])
        /\ Len(rendered) <= PlannedGroups =>
              /\ pc # "failed"
              /\ milestone_update_counter = Len(rendered)
        /\ Len(rendered) >= PlannedGroups =>
              /\ \A g \in 0..(ActiveGroups - 1) :
                    Cardinality({t \in 1..PlannedGroups :
                        rendered[t].list = "Active" /\ rendered[t].group = g}) = 1
              /\ \A g \in 0..(InactiveGroups - 1) :
                    Cardinality({t \in 1..PlannedGroups :
                        rendered[t].list = "Inactive" /\ rendered[t].group = g}) = 1

\* two active and two inactive groups, all four tables updated and saved
C25_Witness ==
    /\ pc = "saved"
    /\ ActiveGroups = 2
    /\ InactiveGroups = 2
    /\ Len(rendered) = 4
    /\ milestone_update_counter = 4

---------------------------------------------------------------------------
(* The removal of slides by position: remove_slides (src/main.py:671-676,  *)
(* and with a range check at src/new-code.py:1204-1226).  The slide list   *)
(* is an XML element; remove(child) raises ValueError for an element that  *)
(* is no longer a child, and a list subscript out of range raises          *)
(* IndexError.  An exception leaves the slides removed so far removed.     *)

DeckLen == 3
IndexLen == 3

\* a presentation of n slides, each slide its own element
Deck(n) == [k \in 1..n |-> <<"sldId", k>>]

Decks == {Deck(n) : n \in 0..DeckLen}

\* index lists in any order, with repeats and with positions off the deck
IndexLists == Lists(IndexLen, (-1)..DeckLen)

\* the sequence without position p (from 1)
WithoutPosition(seq, p) ==
    [k \in 1..(Len(seq) - 1) |-> IF k < p THEN seq[k] ELSE seq[k + 1]]

\* the sequence without its first occurrence of el
WithoutElement(seq, el) ==
    WithoutPosition(seq, CHOOSE p \in DOMAIN seq :
                            seq[p] = el /\ \A q \in 1..(p - 1) : seq[q] # el)

\* sorted(indices, reverse=True)
RECURSIVE SortedReverse(_)
SortedReverse(indices) ==
    IF indices = <<>> THEN <<>>
    ELSE LET p == CHOOSE q \in DOMAIN indices :
                      \A r \in DOMAIN indices : indices[r] <= indices[q]
         IN <<indices[p]>> \o SortedReverse(WithoutPosition(indices, p))

\* for index in order: xml_slides.remove(slides[index])
RECURSIVE RemoveEach(_, _, _)
RemoveEach(current, snapshot, order) ==
    IF order = <<>> THEN [slides |-> current, raised |-> "none"]
    ELSE IF ~InRange(snapshot, Head(order))
         THEN [slides |-> current, raised |-> "IndexError"]
    ELSE LET el == snapshot[PositionOf(snapshot, Head(order)) + 1]
         IN IF \A p \in DOMAIN current : current[p] # el
            THEN [slides |-> current, raised |-> "ValueError"]
            ELSE RemoveEach(WithoutElement(current, el), snapshot, Tail(order))

\* for index in slides_indices: del xml_slides[index] -- the positions taken
\* in the order given and read against the list as it shrinks
RECURSIVE DeleteInGivenOrder(_, _)
DeleteInGivenOrder(deck, indices) ==
    IF indices = <<>> THEN [slides |-> deck, raised |-> "none"]
    ELSE IF ~InRange(deck, Head(indices))
         THEN [slides |-> deck, raised |-> "IndexError"]
    ELSE DeleteInGivenOrder(
             WithoutPosition(deck, PositionOf(deck, Head(indices)) + 1),
             Tail(indices))

\* remove_slides of src/main.py: lines 672-676
RemovedFrom(deck, indices) == RemoveEach(deck, deck, SortedReverse(indices))

\* remove_slides of src/new-code.py: lines 1213-1226.  After the range check
\* no subscript fails, so the except IndexError never runs.
RemovedFromChecked(deck, indices) ==
    LET valid_indices ==
            SelectSeq(indices, LAMBDA i : 0 <= i /\ i < Len(deck))
    IN RemoveEach(deck, deck, SortedReverse(valid_indices))

\* prs = Presentation(ppt_file), and the positions to remove are at hand
OpenPresentation(decks, lists) ==
    /\ pc = "idle"
    /\ \E deck \in decks, indices \in lists :
          /\ xml_slides' = deck
          /\ slides_indices' = indices
    /\ pc' = "opened"
    /\ UNCHANGED <<packerVars, methodVars, renderVars, teamVars, slides_before>>

\* what a call of remove_slides leaves
Removal(outcome) ==
    /\ pc = "opened"
    /\ slides_before' = xml_slides
    /\ xml_slides' = outcome.slides
    /\ pc' = IF outcome.raised = "none" THEN "removed" ELSE "raised"
    /\ UNCHANGED <<packerVars, methodVars, renderVars, teamVars, slides_indices>>

RemoveSlides == Removal(RemovedFrom(xml_slides, slides_indices))

RemoveSlidesChecked == Removal(RemovedFromChecked(xml_slides, slides_indices))

NextDeck ==
    \/ OpenPresentation(Decks, IndexLists)
    \/ RemoveSlides
    \/ RemoveSlidesChecked

SpecDeck == Init /\ [][NextDeck]_vars

IndexSet == {slides_indices[k] : k \in DOMAIN slides_indices}

DistinctIndices ==
    \A j, k \in DOMAIN slides_indices :
        j # k => slides_indices[j] # slides_indices[k]

IndicesWithin == \A x \in IndexSet : 0 <= x /\ x < Len(slides_before)

\* the first k slides of the deck, those at the removed positions left out
RECURSIVE KeptPrefix(_, _, _)
KeptPrefix(deck, removed, k) ==
    IF k = 0 THEN <<>>
    ELSE IF (k - 1) \in removed THEN KeptPrefix(deck, removed, k - 1)
    ELSE Append(KeptPrefix(deck, removed, k - 1), deck[k])

\* C26: remove_slides, given distinct positions all within the
\* presentation, in any order, returns normally and leaves the original
\* slide sequence without the slides at those positions, the others in
\* their original order.
C26_RemovalByIndex ==
    (pc \in {"removed", "raised"} /\ DistinctIndices /\ IndicesWithin) =>
        /\ pc = "removed"
        /\ xml_slides = KeptPrefix(slides_before, IndexSet, Len(slides_before))

\* positions 0 and 2, given in ascending order, removed from three slides:
\* the middle slide is left
C26_Witness ==
    /\ pc = "removed"
    /\ slides_indices = <<0, 2>>
    /\ Len(slides_before) = 3
    /\ xml_slides = <<slides_before[2]>>

---------------------------------------------------------------------------
(* The choice of the slides to remove for the teams selected:              *)
(* slides_to_remove (src/main.py:646-669, and rewritten at                 *)
(* src/new-code.py:1138-1202).  A program holds one of the two functions;  *)
(* calls records up to two calls of it.                                    *)

TeamsLen == 2

\* the list main.py compares teams with
AllSixTeams ==
    <<"ADB", "RDM", "CDL", "CDH", "SCUP NA Datamart - KPI", "Data BAU">>

SixTeams == {AllSixTeams[k] : k \in DOMAIN AllSixTeams}

\* the six teams and two of the names new-code.py maps to a project
TeamNames == SixTeams \cup {"KPI", "SCUP NA"}

\* the six teams in every order
SixTeamOrders ==
    {order \in [DOMAIN AllSixTeams -> SixTeams] :
        \A j, k \in DOMAIN AllSixTeams : j # k => order[j] # order[k]}

\* short selections, in any order and with repeats
ShortTeamLists == Lists(TeamsLen, TeamNames)

\* the short selections and the full selection in every order
TeamLists == ShortTeamLists \cup SixTeamOrders

\* sot of main.py, in the order of its keys
Sot ==
    << <<"ADB", <<1, 2, 8, 13>> >>,
       <<"RDM", <<3, 9, 14>> >>,
       <<"Data BAU", <<4, 10, 15>> >>,
       <<"SCUP NA Datamart - KPI", <<6, 12, 17>> >> >>

\* slide_mapping of new-code.py, in the order of its keys
SlideMapping ==
    << <<"ADB", <<1, 2, 8>> >>,
       <<"RDM", <<3, 9>> >>,
       <<"Data BAU", <<4, 10, 14>> >>,
       <<"SCUP NA Datamart - KPI", <<6, 12>> >> >>

\* the slides CDL and CDH share, in main.py and in new-code.py
SharedSlides == <<5, 11, 16>>
SharedSlidesNew == <<5, 11>>

\* the summary slides new-code.py adds
AdbRdmSummary == 13
SharedSummary == 15

SetOf(seq) == {seq[k] : k \in DOMAIN seq}

\* x in seq, the test turned round
IsIn(x, seq) == x \in SetOf(seq)

\* x not in seq
NotIn(x, seq) == x \notin SetOf(seq)

\* the numbers of S in ascending order
RECURSIVE Ascending(_)
Ascending(S) ==
    IF S = {} THEN <<>>
    ELSE LET least == CHOOSE x \in S : \A y \in S : x <= y
         IN <<least>> \o Ascending(S \ {least})

\* list(set(lisT)): each number once.  The order CPython gives them is that
\* of its hash table; they are listed here in ascending order, and
\* remove_slides sorts them anyway.
ListOfSet(lisT) == Ascending(SetOf(lisT))

\* sorted(list(set(indices_to_remove)))
SortedListOfSet(lisT) == Ascending(SetOf(lisT))

\* the loop over the first k keys of a mapping: the slides of every key
\* that is not in selected are appended
RECURSIVE ExtendedFor(_, _, _, _)
ExtendedFor(lisT, mapping, selected, k) ==
    IF k = 0 THEN lisT
    ELSE LET sofar == ExtendedFor(lisT, mapping, selected, k - 1)
         IN IF NotIn(mapping[k][1], selected)
            THEN sofar \o mapping[k][2] ELSE sofar

\* slides_to_remove of src/main.py
SlidesToRemoveMain(teams) ==
    IF teams = AllSixTeams THEN <<>>
    ELSE LET shared == IF NotIn("CDL", teams) /\ NotIn("CDH", teams)
                       THEN SharedSlides ELSE <<>>
         IN ListOfSet(ExtendedFor(shared, Sot, teams, Len(Sot)))

\* the project a selected team stands for in new-code.py, "" for none
ProjectOf(team) ==
    IF team \in {"ADB", "RDM", "CDL", "CDH"} THEN team
    ELSE IF team \in {"KPI", "EDW", "Trade Credit"} THEN "Data BAU"
    ELSE IF team = "SCUP NA" THEN "SCUP NA Datamart - KPI"
    ELSE ""

\* relevant_projects, as a list without order
RelevantProjects(teams) ==
    LET projects == {ProjectOf(teams[k]) : k \in DOMAIN teams} \ {""}
    IN CHOOSE seq \in [1..Cardinality(projects) -> projects] :
           SetOf(seq) = projects

\* slides_to_remove of src/new-code.py
SlidesToRemoveNew(teams) ==
    LET shared == IF NotIn("CDL", teams) /\ NotIn("CDH", teams)
                  THEN SharedSlidesNew ELSE <<>>
        mapped == ExtendedFor(shared, SlideMapping, RelevantProjects(teams),
                              Len(SlideMapping))
        first == IF IsIn(1, mapped) /\ IsIn(3, mapped)
                 THEN Append(mapped, AdbRdmSummary) ELSE mapped
        second == IF IsIn(5, first) /\ IsIn(6, first)
                  THEN Append(first, SharedSummary) ELSE first
    IN SortedListOfSet(second)

\* the function of the given file may be called: the program holds that
\* function, and fewer than two calls are on record
MayCall(variant) ==
    /\ pc = "idle"
    /\ Len(calls) < 2
    /\ calls # <<>> => calls[1].variant = variant

\* a call returns and is recorded
Called(variant, teams, returned) ==
    /\ calls' = Append(calls,
          [variant |-> variant, teams |-> teams, returned |-> returned])
    /\ UNCHANGED <<packerVars, pc, methodVars, renderVars, deckVars>>

\* the first call recorded takes its teams from first, a further call
\* from again
SlidesToRemove(first, again) ==
    /\ MayCall("main.py")
    /\ \E teams \in (IF calls = <<>> THEN first ELSE again) :
          Called("main.py", teams, SlidesToRemoveMain(teams))

SlidesToRemoveRewritten(first, again) ==
    /\ MayCall("new-code.py")
    /\ \E teams \in (IF calls = <<>> THEN first ELSE again) :
          Called("new-code.py", teams, SlidesToRemoveNew(teams))

\* Every selection is called with, and then any short one.
NextTeams ==
    \/ SlidesToRemove(TeamLists, ShortTeamLists)
    \/ SlidesToRemoveRewritten(ShortTeamLists, ShortTeamLists)

SpecTeams == Init /\ [][NextTeams]_vars

NoRepeats(seq) == \A j, k \in DOMAIN seq : j # k => seq[j] # seq[k]

\* C27: slides_to_remove returns no index twice; two calls of it with the
\* same set of teams, in whatever order and however often repeated, return
\* the same indices; a call with a superset of the teams of another returns
\* a subset of its indices; and main.py's returns no index when all six
\* teams are selected, in any order.
C27_SelectionShrinksRemoval ==
    /\ \A i \in DOMAIN calls :
          /\ NoRepeats(calls[i].returned)
          /\ (calls[i].variant = "main.py"
                 /\ SetOf(calls[i].teams) = SixTeams) =>
                calls[i].returned = <<>>
    /\ \A i, j \in DOMAIN calls :
          /\ SetOf(calls[i].teams) = SetOf(calls[j].teams) =>
                SetOf(calls[i].returned) = SetOf(calls[j].returned)
          /\ SetOf(calls[i].teams) \subseteq SetOf(calls[j].teams) =>
                SetOf(calls[j].returned) \subseteq SetOf(calls[i].returned)

\* main.py's function called with all six teams in reverse order, then
\* with ADB named twice: the first call returns nothing, the second
\* something
C27_Witness ==
    /\ Len(calls) = 2
    /\ calls[1].variant = "main.py"
    /\ calls[1].teams = [k \in DOMAIN AllSixTeams |->
                            AllSixTeams[Len(AllSixTeams) + 1 - k]]
    /\ calls[1].returned = <<>>
    /\ calls[2].teams = <<"ADB", "ADB">>
    /\ calls[2].returned # <<>>

===========================================================================
